---- MODULE Spec2Model ----
(***************************************************************************)
(* Model of calibre's Kindle device driver                                 *)
(* (src/calibre/devices/kindle/driver.py): the class attributes of KINDLE  *)
(* and KINDLE2 and the statement-level behaviour of KINDLE.delete_books    *)
(* on a filesystem whose removals may fail.                                *)
(***************************************************************************)
EXTENDS Integers, Sequences, FiniteSets, TLC

VARIABLES fs, pc, paths, k, result, dev, log, fs0, prev, stranded

vars == <<fs, pc, paths, k, result, dev, log, fs0, prev, stranded>>

(* ---------------------------------------------------------------------- *)
(* Bounds                                                                  *)
(* ---------------------------------------------------------------------- *)
MaxLen == 2
ConcMaxLen == 1

Callers == {1, 2}

(* ---------------------------------------------------------------------- *)
(* Paths are sequences of characters.                                      *)
(* ---------------------------------------------------------------------- *)
BookAzw == <<"b", ".", "a", "z", "w">>
BookTxt == <<"b", ".", "t", "x", "t">>
BookMbp == <<"b", ".", "m", "b", "p">>
DirBook == <<"d", ".", "e", "/", "c">>
DirBookMbp == <<"d", ".", "e", "/", "c", ".", "m", "b", "p">>

\* paths a caller may pass to delete_books
Pool == {BookAzw, BookTxt, BookMbp, DirBook}
\* every file that may be present on the mounted filesystem
Files == {BookAzw, BookTxt, BookMbp, DirBook, DirBookMbp}

RECURSIVE SeqsUpTo(_, _)
SeqsUpTo(S, n) ==
    IF n = 0 THEN {<<>>}
    ELSE LET shorter == SeqsUpTo(S, n - 1)
         IN  shorter \cup {Append(s, x) : s \in {t \in shorter : Len(t) = n - 1}, x \in S}

Range(s) == {s[i] : i \in DOMAIN s}

(* ---------------------------------------------------------------------- *)
(* Class attributes and attribute lookup through the class hierarchy.      *)
(* ---------------------------------------------------------------------- *)
KINDLE_dict ==
    [FORMATS |-> <<"azw", "mobi", "prc", "azw1", "tpz", "txt">>,
     VENDOR_ID |-> <<6473>>,
     PRODUCT_ID |-> <<1>>,
     BCD |-> <<921>>,
     VENDOR_NAME |-> <<"KINDLE">>,
     WINDOWS_MAIN_MEM |-> <<"INTERNAL_STORAGE">>,
     WINDOWS_CARD_MEM |-> <<"CARD_STORAGE">>,
     OSX_MAIN_MEM |-> <<"Kindle Internal Storage Media">>,
     OSX_CARD_MEM |-> <<"Kindle Card Storage Media">>,
     MAIN_MEMORY_VOLUME_LABEL |-> <<"Kindle Main Memory">>,
     STORAGE_CARD_VOLUME_LABEL |-> <<"Kindle Storage Card">>,
     EBOOK_DIR_MAIN |-> <<"documents">>,
     EBOOK_DIR_CARD |-> <<"documents">>,
     SUPPORTS_SUB_DIRS |-> <<"True">>,
     delete_books |-> <<"KINDLE.delete_books">>]

\* variant: the revision overrides more than its identifiers
KINDLE2_dict_override ==
    [PRODUCT_ID |-> <<2>>,
     BCD |-> <<256>>,
     EBOOK_DIR_CARD |-> <<"documents2">>,
     delete_books |-> <<"KINDLE2.delete_books">>]

KINDLE2_dict ==
    [PRODUCT_ID |-> <<2>>,
     BCD |-> <<256>>]

\* class -> its own namespace
ClassDict(cls) == IF cls = "KINDLE2" THEN KINDLE2_dict ELSE KINDLE_dict

\* class -> the classes searched for an attribute, in order
MRO(cls) == IF cls = "KINDLE2" THEN <<"KINDLE2", "KINDLE">> ELSE <<"KINDLE">>

\* attribute lookup: the first class of the MRO that defines the name, <<>>
\* when none does
GetAttr(cls, name) ==
    LET mro == MRO(cls)
        hits == {i \in DOMAIN mro : name \in DOMAIN ClassDict(mro[i])}
    IN  IF hits = {} THEN <<>>
        ELSE LET first == CHOOSE i \in hits : \A j \in hits : i <= j
             IN  ClassDict(mro[first])[name]

Devices == {"KINDLE", "KINDLE2"}

(* ---------------------------------------------------------------------- *)
(* os.path and os primitives used by delete_books.                         *)
(* ---------------------------------------------------------------------- *)
\* last index of ch in p, 0 when absent
RFind(p, ch) ==
    LET hits == {i \in DOMAIN p : p[i] = ch}
    IN  IF hits = {} THEN 0 ELSE CHOOSE i \in hits : \A j \in hits : j <= i

\* os.path.splitext: <<root, ext>>; the extension starts at the last dot of
\* the last path component, unless that component has only leading dots
splitext(p) ==
    LET sepIndex == RFind(p, "/")
        dotIndex == RFind(p, ".")
    IN  IF /\ dotIndex > sepIndex
           /\ \E i \in (sepIndex + 1)..(dotIndex - 1) : p[i] # "."
        THEN <<SubSeq(p, 1, dotIndex - 1), SubSeq(p, dotIndex, Len(p))>>
        ELSE <<p, <<>>>>

MBP == <<".", "m", "b", "p">>

\* variant: the extension is not stripped
AuxPath_keepExt(path) == path \o MBP

\* filepath + '.mbp'
AuxPath(path) == splitext(path)[1] \o MBP

\* os.path.exists
PathExists(f, files) == f \in files

\* the ways os.unlink(f) can end: a missing file is an error, and removing
\* an existing one can fail (permission, I/O error, device removed, directory)
UnlinkOutcomes(f, files) ==
    IF f \in files THEN {"ok", "EIO"} ELSE {"ENOENT"}

\* variant: every file with the same stem goes
Remove_wholeStem(f, files) == {g \in files : splitext(g)[1] # splitext(f)[1]}

\* the filesystem after a successful os.unlink(f)
Remove(f, files) == files \ {f}

(* ---------------------------------------------------------------------- *)
(* Control flow of delete_books.                                           *)
(* ---------------------------------------------------------------------- *)
\* variant: a missing book still has its auxiliary file looked for
BookBranch_auxAnyway(found) == IF found THEN "unlink" ELSE "checkaux"

\* variant: the existence test is left out
BookBranch_noCheck(found) == "unlink"

\* line 35: if os.path.exists(path)
BookBranch(found) == IF found THEN "unlink" ELSE "next"

\* variant: a failed removal of the book is swallowed and the auxiliary file
\* is handled all the same
AfterUnlink_tryAux(r) == "checkaux"

\* line 36: os.unlink(path), an exception leaves the method
AfterUnlink(r) == IF r = "ok" THEN "checkaux" ELSE "raise"

\* variant: the auxiliary file is removed without testing that it exists
AuxBranch_noCheck(found) == "unlinkaux"

\* line 41: if os.path.exists(filepath + '.mbp')
AuxBranch(found) == IF found THEN "unlinkaux" ELSE "next"

\* variant: a failed removal of the auxiliary file is swallowed and the loop
\* goes on
AfterUnlinkAux_swallow(r) == "next"

\* line 42: os.unlink(filepath + '.mbp'), an exception leaves the method
AfterUnlinkAux(r) == IF r = "ok" THEN "next" ELSE "raise"

\* one filesystem call made by delete_books: the source line that made it,
\* the index of the input path being handled, the file named, the outcome
Entry(line, idx, file, res) == [line |-> line, idx |-> idx, file |-> file, res |-> res]

Bool(b) == IF b THEN "true" ELSE "false"

\* move caller c to the statement tgt; r is the outcome of the last unlink
Move(c, tgt, r) ==
    LET last == k[c] + 1 > Len(paths[c])
    IN  /\ pc' = [pc EXCEPT ![c] =
                    IF tgt = "raise" \/ (tgt = "next" /\ last) THEN "idle"
                    ELSE IF tgt = "next" THEN "check" ELSE tgt]
        /\ k' = [k EXCEPT ![c] = IF tgt = "next" THEN k[c] + 1 ELSE k[c]]
        /\ result' = [result EXCEPT ![c] =
                    IF tgt = "raise" THEN r
                    ELSE IF tgt = "next" /\ last THEN "ok" ELSE result[c]]

CurPath(c) == paths[c][k[c]]

\* caller c calls delete_books(ps) on the driver instance, whose class is dev
Begin(c, ps) ==
    /\ pc[c] = "idle"
    /\ GetAttr(dev, "delete_books") = <<"KINDLE.delete_books">>
    /\ paths' = [paths EXCEPT ![c] = ps]
    /\ k' = [k EXCEPT ![c] = 1]
    /\ pc' = [pc EXCEPT ![c] = IF ps = <<>> THEN "idle" ELSE "check"]
    /\ result' = [result EXCEPT ![c] = IF ps = <<>> THEN "ok" ELSE "none"]
    /\ log' = [log EXCEPT ![c] = <<>>]
    /\ fs0' = [fs0 EXCEPT ![c] = fs]
    /\ prev' = [prev EXCEPT ![c] = IF ps = paths[c] THEN result[c] ELSE "none"]
    /\ stranded' = [stranded EXCEPT ![c] = IF ps = paths[c] THEN stranded[c] ELSE {}]
    /\ UNCHANGED <<fs, dev>>

\* line 35
Exists(c) ==
    /\ pc[c] = "check"
    /\ LET found == PathExists(CurPath(c), fs)
       IN  /\ Move(c, BookBranch(found), "none")
           /\ log' = [log EXCEPT ![c] =
                        Append(@, Entry(35, k[c], CurPath(c), Bool(found)))]
    /\ UNCHANGED <<fs, paths, dev, fs0, prev, stranded>>

\* line 36
Unlink(c) ==
    /\ pc[c] = "unlink"
    /\ \E r \in UnlinkOutcomes(CurPath(c), fs) :
          /\ fs' = IF r = "ok" THEN Remove(CurPath(c), fs) ELSE fs
          /\ Move(c, AfterUnlink(r), r)
          /\ log' = [log EXCEPT ![c] =
                        Append(@, Entry(36, k[c], CurPath(c), r))]
    /\ UNCHANGED <<paths, dev, fs0, prev, stranded>>

\* lines 38-41
ExistsAux(c) ==
    /\ pc[c] = "checkaux"
    /\ LET aux == AuxPath(CurPath(c))
           found == PathExists(aux, fs)
       IN  /\ Move(c, AuxBranch(found), "none")
           /\ log' = [log EXCEPT ![c] =
                        Append(@, Entry(41, k[c], aux, Bool(found)))]
    /\ UNCHANGED <<fs, paths, dev, fs0, prev, stranded>>

\* line 42
UnlinkAux(c) ==
    /\ pc[c] = "unlinkaux"
    /\ LET aux == AuxPath(CurPath(c))
       IN  \E r \in UnlinkOutcomes(aux, fs) :
              /\ fs' = IF r = "ok" THEN Remove(aux, fs) ELSE fs
              /\ Move(c, AfterUnlinkAux(r), r)
              /\ log' = [log EXCEPT ![c] =
                            Append(@, Entry(42, k[c], aux, r))]
              /\ stranded' = [stranded EXCEPT ![c] =
                            IF r = "ok" THEN @
                            ELSE @ \cup {[book |-> CurPath(c), aux |-> aux]}]
    /\ UNCHANGED <<paths, dev, fs0, prev>>

Init ==
    /\ fs \in SUBSET Files
    /\ pc = [c \in Callers |-> "idle"]
    /\ paths = [c \in Callers |-> <<>>]
    /\ k = [c \in Callers |-> 1]
    /\ result = [c \in Callers |-> "none"]
    /\ dev \in Devices
    /\ log = [c \in Callers |-> <<>>]
    /\ fs0 = [c \in Callers |-> fs]
    /\ prev = [c \in Callers |-> "none"]
    /\ stranded = [c \in Callers |-> {}]

\* single-threaded use: one caller, any number of calls one after another
InputSeqs == SeqsUpTo(Pool, MaxLen)

BeginCall == \E ps \in InputSeqs : Begin(1, ps)
ExistsStep == Exists(1)
UnlinkStep == Unlink(1)
ExistsAuxStep == ExistsAux(1)
UnlinkAuxStep == UnlinkAux(1)

Next == BeginCall \/ ExistsStep \/ UnlinkStep \/ ExistsAuxStep \/ UnlinkAuxStep

Spec == Init /\ [][Next]_vars

\* two callers, one call each, on books that share one auxiliary file
ConcPool == {BookAzw, BookTxt}

ConcInputSeqs == SeqsUpTo(ConcPool, ConcMaxLen)

ConcBegin ==
    \E c \in Callers, ps \in ConcInputSeqs :
        /\ result[c] = "none"
        /\ Begin(c, ps)
ConcExists == \E c \in Callers : Exists(c)
ConcUnlink == \E c \in Callers : Unlink(c)
ConcExistsAux == \E c \in Callers : ExistsAux(c)
ConcUnlinkAux == \E c \in Callers : UnlinkAux(c)

NextConc == ConcBegin \/ ConcExists \/ ConcUnlink \/ ConcExistsAux \/ ConcUnlinkAux

SpecConc == Init /\ [][NextConc]_vars

(* ---------------------------------------------------------------------- *)
(* Vocabulary of the properties.                                           *)
(* ---------------------------------------------------------------------- *)
\* the auxiliary file of each pool path, written out
ExpectedAux(p) ==
    CASE p = BookAzw -> BookMbp
      [] p = BookTxt -> BookMbp
      [] p = BookMbp -> BookMbp
      [] p = DirBook -> DirBookMbp

Errors == {"EIO", "ENOENT"}

Returned(c) == pc[c] = "idle" /\ result[c] # "none"
Completed(c) == pc[c] = "idle" /\ result[c] = "ok"
Raised(c) == pc[c] = "idle" /\ result[c] \in Errors

\* the filesystem calls caller c made while handling paths[i]
CallsAt(c, i) == SelectSeq(log[c], LAMBDA e : e.idx = i)

\* caller c has got to paths[i]
Reached(c, i) == \E j \in DOMAIN log[c] : log[c][j].idx = i

\* the handling of paths[i] by caller c is over
Handled(c, i) == Reached(c, i) /\ (k[c] > i \/ pc[c] = "idle")

\* the filesystem as it was when the only caller got to paths[i]
FsWhenReached(c, i) ==
    fs0[c] \ {log[c][j].file : j \in {j \in DOMAIN log[c] :
                    /\ log[c][j].idx < i
                    /\ log[c][j].line \in {36, 42}
                    /\ log[c][j].res = "ok"}}

TypeOK ==
    /\ fs \subseteq Files
    /\ dev \in Devices
    /\ \A c \in Callers :
          /\ pc[c] \in {"idle", "check", "unlink", "checkaux", "unlinkaux"}
          /\ result[c] \in {"none", "ok", "EIO", "ENOENT"}
          /\ fs0[c] \subseteq Files
(* ---------------------------------------------------------------------- *)
(* Properties of a single caller (specification Spec).                     *)
(* ---------------------------------------------------------------------- *)

\* C1: a path that is missing when delete_books gets to it is skipped: the
\* only filesystem call made for it is the failed existence test, nothing is
\* removed (its auxiliary file stays), no error is raised and the loop goes
\* on; a call all of whose paths are missing leaves the filesystem as it was.
C1_MissingPathSkipped ==
    /\ \A i \in DOMAIN paths[1] :
          (Handled(1, i) /\ paths[1][i] \notin FsWhenReached(1, i)) =>
             /\ CallsAt(1, i) = <<Entry(35, i, paths[1][i], "false")>>
             /\ ~(Raised(1) /\ k[1] = i)
             /\ (ExpectedAux(paths[1][i]) \in FsWhenReached(1, i)
                    => ExpectedAux(paths[1][i]) \in FsWhenReached(1, i + 1))
    /\ (\A i \in DOMAIN paths[1] : paths[1][i] \notin fs0[1]) =>
          /\ fs = fs0[1]
          /\ result[1] \in {"none", "ok"}

\* C1 witness: a finished call skipped a missing book whose auxiliary file
\* exists and is still there
C1_Witness ==
    /\ Completed(1)
    /\ \E i \in DOMAIN paths[1] :
          /\ paths[1][i] \notin FsWhenReached(1, i)
          /\ ExpectedAux(paths[1][i]) # paths[1][i]
          /\ ExpectedAux(paths[1][i]) \in fs

\* C2: when a call returns without a failed removal, every book that existed
\* together with its auxiliary file when the call got to it is gone, and so
\* is that auxiliary file.
C2_BookAndAuxRemoved ==
    Completed(1) =>
       \A i \in DOMAIN paths[1] :
          (/\ paths[1][i] \in FsWhenReached(1, i)
           /\ ExpectedAux(paths[1][i]) \in FsWhenReached(1, i)) =>
             /\ paths[1][i] \notin fs
             /\ ExpectedAux(paths[1][i]) \notin fs

\* C2 witness: a finished call removed a book and its distinct auxiliary file
C2_Witness ==
    /\ Completed(1)
    /\ \E i \in DOMAIN paths[1] :
          /\ paths[1][i] \in FsWhenReached(1, i)
          /\ ExpectedAux(paths[1][i]) \in FsWhenReached(1, i)
          /\ ExpectedAux(paths[1][i]) # paths[1][i]
          /\ paths[1][i] \notin fs
          /\ ExpectedAux(paths[1][i]) \notin fs
\* C3 as stated: a book that exists without an auxiliary file when the call
\* gets to it is removed, no removal of the auxiliary path is attempted and
\* no error is raised while handling it.
C3_AsStated ==
    \A i \in DOMAIN paths[1] :
       (/\ Handled(1, i)
        /\ paths[1][i] \in FsWhenReached(1, i)
        /\ ExpectedAux(paths[1][i]) \notin FsWhenReached(1, i)) =>
          /\ paths[1][i] \notin fs
          /\ \A j \in DOMAIN log[1] : ~(log[1][j].idx = i /\ log[1][j].line = 42)
          /\ ~(Raised(1) /\ k[1] = i)

\* C3 amended: for such a book the removal of the book file is attempted and
\* never one of the auxiliary path; an error can only come from the removal
\* of the book file itself, and when that removal succeeds the book is gone,
\* the auxiliary path is found missing and the handling ends without error.
C3_NoFailureFromMissingAux ==
    \A i \in DOMAIN paths[1] :
       (/\ Handled(1, i)
        /\ paths[1][i] \in FsWhenReached(1, i)
        /\ ExpectedAux(paths[1][i]) \notin FsWhenReached(1, i)) =>
          \/ /\ CallsAt(1, i) = <<Entry(35, i, paths[1][i], "true"),
                                  Entry(36, i, paths[1][i], "ok"),
                                  Entry(41, i, ExpectedAux(paths[1][i]), "false")>>
             /\ paths[1][i] \notin fs
             /\ ~(Raised(1) /\ k[1] = i)
          \/ /\ CallsAt(1, i) = <<Entry(35, i, paths[1][i], "true"),
                                  Entry(36, i, paths[1][i], "EIO")>>
             /\ paths[1][i] \in fs
             /\ Raised(1) /\ k[1] = i /\ result[1] = "EIO"

\* C3 witness: a finished call removed a book that had no auxiliary file
C3_Witness ==
    /\ Completed(1)
    /\ \E i \in DOMAIN paths[1] :
          /\ paths[1][i] \in FsWhenReached(1, i)
          /\ ExpectedAux(paths[1][i]) \notin FsWhenReached(1, i)
          /\ paths[1][i] \notin fs

\* the files a call has removed so far
Removed(c) == fs0[c] \ fs

\* exactly one position of the batch names a file that existed at the start
OnlyExisting(c, i) ==
    /\ i \in DOMAIN paths[c]
    /\ paths[c][i] \in fs0[c]
    /\ \A j \in DOMAIN paths[c] : j # i => paths[c][j] \notin fs0[c]

\* what such a batch is to remove
BookAndAux(c, i) ==
    {paths[c][i]} \cup ({ExpectedAux(paths[c][i])} \cap fs0[c])

\* a call creates nothing and removes only input paths and their auxiliary
\* files, at every point of the call and however it ends
C4_Frame ==
    /\ fs \subseteq fs0[1]
    /\ Removed(1) \subseteq
          Range(paths[1]) \cup {ExpectedAux(p) : p \in Range(paths[1])}

\* C4 as stated: the frame, and a batch in which exactly paths[i] exists
\* completes without error having removed exactly paths[i] and its auxiliary
\* file if that existed.
C4_AsStated ==
    /\ C4_Frame
    /\ \A i \in DOMAIN paths[1] :
          (Returned(1) /\ OnlyExisting(1, i)) =>
             /\ result[1] = "ok"
             /\ Removed(1) = BookAndAux(1, i)

\* C4 amended: the frame, and a batch in which exactly paths[i] exists
\* never removes anything but paths[i] and its auxiliary file, and when no
\* removal fails it completes without error having removed exactly those.
C4_FrameAndSingleExisting ==
    /\ C4_Frame
    /\ \A i \in DOMAIN paths[1] :
          OnlyExisting(1, i) =>
             /\ Removed(1) \subseteq BookAndAux(1, i)
             /\ Completed(1) => Removed(1) = BookAndAux(1, i)
             /\ Raised(1) => /\ result[1] = "EIO"
                             /\ log[1][Len(log[1])].res = "EIO"

\* C4 witness: a finished batch of two paths of which only the second
\* existed removed that book and its auxiliary file, and another file is
\* still there
C4_Witness ==
    /\ Completed(1)
    /\ Len(paths[1]) = 2
    /\ OnlyExisting(1, 2)
    /\ Removed(1) = {paths[1][2], ExpectedAux(paths[1][2])}
    /\ ExpectedAux(paths[1][2]) # paths[1][2]
    /\ fs # {}
\* C5: the paths are handled in input order and a failed removal ends the
\* call at once: it is the last filesystem call of the call, the call
\* returns its error with k at the failing path, nothing was done for a later
\* path, no filesystem call is repeated, and whatever an earlier removal of
\* the call took away is still gone.
C5_FailFastInOrder ==
    /\ \A a, b \in DOMAIN log[1] : a < b =>
          \/ log[1][a].idx < log[1][b].idx
          \/ log[1][a].idx = log[1][b].idx /\ log[1][a].line < log[1][b].line
    /\ \A j \in DOMAIN log[1] :
          /\ log[1][j].idx <= k[1]
          /\ log[1][j].idx \in DOMAIN paths[1]
          /\ (log[1][j].line \in {36, 42} /\ log[1][j].res = "ok")
                => log[1][j].file \notin fs
          /\ (log[1][j].line \in {36, 42} /\ log[1][j].res # "ok") =>
                /\ j = Len(log[1])
                /\ Raised(1)
                /\ result[1] = log[1][j].res
                /\ k[1] = log[1][j].idx
    /\ \A i \in 1..(k[1] - 1) : Reached(1, i)
    /\ Raised(1) =>
          /\ log[1] # <<>>
          /\ log[1][Len(log[1])].line \in {36, 42}
          /\ log[1][Len(log[1])].res = result[1]

\* C5 witness: the removal of the first book's auxiliary file failed; the
\* book stays removed and the second path, which exists, was never looked at
C5_Witness ==
    /\ Raised(1)
    /\ Len(paths[1]) = 2
    /\ k[1] = 1
    /\ paths[1][1] \in fs0[1]
    /\ paths[1][1] \notin fs
    /\ paths[1][2] \in fs
    /\ ~Reached(1, 2)

\* paths[i] names a file an earlier path of the same call names: the same
\* path, or the auxiliary file of an earlier path
Repeated(c, i) ==
    \E h \in 1..(i - 1) :
       \/ paths[c][h] = paths[c][i]
       \/ ExpectedAux(paths[c][h]) = paths[c][i]

\* paths[i] repeats an earlier deletion request of the same call: the same
\* path, or the auxiliary file of an earlier path that was there to be deleted
Duplicate(c, i) ==
    \E h \in 1..(i - 1) :
       \/ paths[c][h] = paths[c][i]
       \/ /\ ExpectedAux(paths[c][h]) = paths[c][i]
          /\ paths[c][h] \in FsWhenReached(c, h)

\* a call with the paths of the call before it, which completed, removes
\* nothing, attempts no removal and completes
RetryIsNoOp ==
    prev[1] = "ok" =>
       /\ fs = fs0[1]
       /\ result[1] \in {"none", "ok"}
       /\ \A j \in DOMAIN log[1] :
             log[1][j].line = 35 /\ log[1][j].res = "false"

\* C6 as stated: a path that occurs earlier in the sequence, or is the
\* auxiliary file of an earlier path, is found gone, with no other
\* filesystem call, no error and no change; and a repeated call is a no-op.
C6_AsStated ==
    /\ \A i \in DOMAIN paths[1] :
          (Handled(1, i) /\ Repeated(1, i)) =>
             /\ CallsAt(1, i) = <<Entry(35, i, paths[1][i], "false")>>
             /\ paths[1][i] \notin FsWhenReached(1, i)
             /\ FsWhenReached(1, i + 1) = FsWhenReached(1, i)
             /\ ~(Raised(1) /\ k[1] = i)
    /\ RetryIsNoOp

\* C6 amended: a path that occurs earlier in the sequence, or is the
\* auxiliary file of an earlier path that existed when the call got to it,
\* is found gone, with no other filesystem call, no error and no change; and
\* a repeated call is a no-op.
C6_DuplicateIsNoOp ==
    /\ \A i \in DOMAIN paths[1] :
          (Handled(1, i) /\ Duplicate(1, i)) =>
             /\ CallsAt(1, i) = <<Entry(35, i, paths[1][i], "false")>>
             /\ paths[1][i] \notin FsWhenReached(1, i)
             /\ FsWhenReached(1, i + 1) = FsWhenReached(1, i)
             /\ ~(Raised(1) /\ k[1] = i)
    /\ RetryIsNoOp

\* C6 witness: a finished call was given an existing book and then the same
\* book again, or then its auxiliary file, which existed too
C6_Witness ==
    /\ Completed(1)
    /\ Len(paths[1]) >= 2
    /\ paths[1][1] \in fs0[1]
    /\ \/ paths[1][2] = paths[1][1]
       \/ /\ paths[1][2] = ExpectedAux(paths[1][1])
          /\ paths[1][2] # paths[1][1]
          /\ paths[1][2] \in fs0[1]
    /\ fs # fs0[1]

\* C6 witness of the repeated call: it has handled all its paths
C6_RetryReached ==
    /\ Completed(1)
    /\ prev[1] = "ok"
    /\ Len(log[1]) = 2
Identifiers == {"PRODUCT_ID", "BCD"}

\* C7: KINDLE2 has every attribute of KINDLE with the same value, the method
\* delete_books included, except PRODUCT_ID and BCD, which both differ; so a
\* call on a driver of either class runs KINDLE.delete_books.
C7_RevisionDiffersOnlyInIdentifiers ==
    /\ \A name \in DOMAIN KINDLE_dict \ Identifiers :
          GetAttr("KINDLE2", name) = GetAttr("KINDLE", name)
    /\ \A name \in Identifiers :
          /\ GetAttr("KINDLE2", name) # GetAttr("KINDLE", name)
          /\ GetAttr("KINDLE2", name) # <<>>
    /\ DOMAIN KINDLE2_dict \subseteq DOMAIN KINDLE_dict
    /\ (\E c \in Callers : log[c] # <<>>) =>
          GetAttr(dev, "delete_books") = GetAttr("KINDLE", "delete_books")

\* C7 witness: a call on a KINDLE2 driver removed a book and its auxiliary
\* file
C7_Witness ==
    /\ dev = "KINDLE2"
    /\ Completed(1)
    /\ paths[1] = <<BookAzw>>
    /\ fs0[1] \ fs = {BookAzw, BookMbp}

\* C9: the auxiliary file is looked for only after the book was removed,
\* and a failed removal of a book that exists ends the call at once: it is
\* the last filesystem call, the call returns its error, and the book and
\* its auxiliary file, if it had one, are both still there.
C9_BookRemovalFailureStops ==
    \A j \in DOMAIN log[1] :
       /\ log[1][j].line = 41 =>
             /\ j > 1
             /\ log[1][j - 1] = Entry(36, log[1][j].idx,
                                      paths[1][log[1][j].idx], "ok")
       /\ (log[1][j].line = 36 /\ log[1][j].res # "ok") =>
             LET i == log[1][j].idx
             IN  /\ j = Len(log[1])
                 /\ Raised(1)
                 /\ result[1] = log[1][j].res
                 /\ log[1][j].file = paths[1][i]
                 /\ paths[1][i] \in fs
                 /\ (ExpectedAux(paths[1][i]) \in FsWhenReached(1, i)
                        => ExpectedAux(paths[1][i]) \in fs)
                 /\ \A h \in DOMAIN log[1] :
                       ~(log[1][h].idx = i /\ log[1][h].line \in {41, 42})

\* C9 witness: the removal of a book failed; the book and its distinct
\* auxiliary file are still there
C9_Witness ==
    /\ Raised(1)
    /\ log[1][Len(log[1])].line = 36
    /\ CurPath(1) \in fs
    /\ ExpectedAux(CurPath(1)) \in fs
    /\ ExpectedAux(CurPath(1)) # CurPath(1)

AuxFiles == {ExpectedAux(p) : p \in Pool}

\* an auxiliary file goes only as the input path being removed, or in the
\* loop step that found its book and removed it
AuxRemovedWithBook ==
    \A f \in (fs \ fs') \cap AuxFiles :
       \/ pc[1] = "unlink" /\ CurPath(1) = f
       \/ /\ pc[1] = "unlinkaux"
          /\ ExpectedAux(CurPath(1)) = f
          /\ CallsAt(1, k[1]) = <<Entry(35, k[1], CurPath(1), "true"),
                                  Entry(36, k[1], CurPath(1), "ok"),
                                  Entry(41, k[1], f, "true")>>

\* once the removal of a book's auxiliary file has failed, the book stays
\* deleted and calls with the same paths skip it
StrandedBookSkipped ==
    \A s \in stranded[1] :
       /\ s.aux = ExpectedAux(s.book)
       /\ s.book \notin fs
       /\ pc[1] \in {"unlink", "checkaux", "unlinkaux"} => CurPath(1) # s.book

\* C10 as stated: an auxiliary file goes only with its book or as an input
\* path, and one whose removal failed after its book was removed is never
\* removed by later calls with the same paths, unless it is an input path.
C10_AsStated ==
    /\ [][AuxRemovedWithBook]_vars
    /\ []StrandedBookSkipped
    /\ [][\A s \in stranded[1] :
            (s.aux \in fs /\ s.aux \notin Range(paths[1])) => s.aux \in fs']_vars

\* C10 amended: an auxiliary file goes only with its book or as an input
\* path, and one whose removal failed after its book was removed is removed
\* by a later call with the same paths only as an input path or with
\* another input path that has the same auxiliary file and still exists.
C10_AuxOnlyWithBook ==
    /\ [][AuxRemovedWithBook]_vars
    /\ []StrandedBookSkipped
    /\ [][\A s \in stranded[1] :
            (s.aux \in fs /\ s.aux \notin fs') =>
               \/ pc[1] = "unlink" /\ CurPath(1) = s.aux
               \/ /\ pc[1] = "unlinkaux"
                  /\ CurPath(1) # s.book
                  /\ ExpectedAux(CurPath(1)) = s.aux
                  /\ CurPath(1) \in FsWhenReached(1, k[1])]_vars

\* C10 witness: after a call in which the removal of the auxiliary file
\* failed, a call with the same paths has completed and the auxiliary file
\* is still there
C10_Witness ==
    /\ Completed(1)
    /\ prev[1] = "EIO"
    /\ paths[1] # <<>>
    /\ \E s \in stranded[1] : s.aux \in fs /\ s.book \in Range(paths[1])

(* ---------------------------------------------------------------------- *)
(* Two concurrent callers (specification SpecConc).                        *)
(* ---------------------------------------------------------------------- *)

\* C8: a removal fails on a missing file only in the race: the caller had
\* just found the file existing, and the other caller removed it before the
\* caller's own removal ran.
C8_EnoentOnlyFromRace ==
    \A c \in Callers : \A j \in DOMAIN log[c] :
       log[c][j].res = "ENOENT" =>
          /\ j > 1
          /\ log[c][j - 1] = Entry(log[c][j].line - 1, log[c][j].idx,
                                   log[c][j].file, "true")
          /\ log[c][j].file \notin fs
          /\ \E d \in Callers \ {c} : \E h \in DOMAIN log[d] :
                /\ log[d][h].file = log[c][j].file
                /\ log[d][h].line \in {36, 42}
                /\ log[d][h].res = "ok"

\* C8 witness: both callers were given the same book, which existed with
\* its auxiliary file when both calls began, both found it existing, no
\* removal failed for another reason, and the second caller's removal failed
\* on the file that was already gone
C8_Witness ==
    /\ paths[1] = <<BookAzw>>
    /\ paths[2] = <<BookAzw>>
    /\ fs0[1] = fs0[2]
    /\ {BookAzw, BookMbp} \subseteq fs0[1]
    /\ log[1] # <<>>
    /\ log[1][1] = Entry(35, 1, BookAzw, "true")
    /\ log[2] = <<Entry(35, 1, BookAzw, "true"), Entry(36, 1, BookAzw, "ENOENT")>>
    /\ Raised(2)
    /\ \A j \in DOMAIN log[1] : log[1][j].res # "EIO"

\* the same race on the auxiliary file shared by two books
C8_SharedAuxRace ==
    /\ paths[1] = <<BookAzw>>
    /\ paths[2] = <<BookTxt>>
    /\ fs0[1] = fs0[2]
    /\ {BookAzw, BookTxt, BookMbp} \subseteq fs0[1]
    /\ Completed(1)
    /\ Raised(2)
    /\ log[2][Len(log[2])] = Entry(42, 1, BookMbp, "ENOENT")

\* a single caller never has a removal fail on a missing file
NoEnoentAlone == \A j \in DOMAIN log[1] : log[1][j].res # "ENOENT"
====
